---- MODULE Spec2Model ----
(***************************************************************************)
(* A model of the error/result subsystem of cpp-demo-project:              *)
(*   - the exception hierarchy of include/exceptions/custom_exception.hpp, *)
(*   - Result<T> of include/exceptions/result.hpp,                         *)
(*   - ExceptionHandler of include/exceptions/exception_handler.hpp.       *)
(* Objects are records; a call that may throw yields an outcome record     *)
(* that either carries the returned value or the thrown object.            *)
(***************************************************************************)
EXTENDS Integers, Sequences, FiniteSets, TLC

VARIABLES
  result,   \* the Result<T> at the head of the chain being evaluated
  start,    \* the Result<T> the chain was started from
  trace,    \* the combinator steps applied since start, oldest first
  raised,   \* <<>> or <<x>>: x is the object propagating out of the chain
  last,     \* the outcome of the latest accessor call on result
  log,      \* the lines printed by ExceptionHandler, oldest first
  safe,     \* the outcome of the latest ExceptionHandler call
  original, \* <<>> or <<e>>: e is the diagnostic the copies are taken of
  copies,   \* the outcomes of the successive copies of original
  managers, \* the ResourceManager objects, by name
  registered, \* the cleanup functions registered so far: their behaviour
  done,     \* the functions a cleanup call that returned had to invoke
  ran,      \* the cleanup functions invoked so far
  cleanup,  \* the outcome of the latest ResourceManager call
  timer,    \* the Timer object
  now,      \* the reading of Clock::now()
  mutator,  \* the latest constructor, Start, Stop or Reset call on timer
  reading,  \* the outcome of the latest GetElapsed call on timer
  argument, \* what the Result the chain started from was constructed from
  receiver, \* the latest pair of equal calls on one Result
  data_,    \* the elements of the Container
  lookup,   \* the outcome of the latest Container call
  shapes,   \* the Circle and Rectangle objects that exist
  built,    \* the outcome of the latest shape construction
  scan      \* the StringProcessor loop being executed

resultVars == <<result, start, trace, raised, last, argument, receiver>>
handlerVars == <<log, safe>>
diagnosticVars == <<original, copies>>
managerVars == <<managers, registered, done, ran, cleanup>>
timerVars == <<timer, now, mutator, reading>>
containerVars == <<data_, lookup>>
shapeVars == <<shapes, built>>
stringVars == <<scan>>
valueVars == <<containerVars, shapeVars, stringVars>>

vars == <<resultVars, handlerVars, diagnosticVars, managerVars, timerVars,
          valueVars>>

(***************************************************************************)
(* Bounds of the model.                                                    *)
(***************************************************************************)
MaxValue == 2   \* success payloads a chain may start from: 0..MaxValue
MaxChain == 3   \* combinator steps per chain
MaxLog == 2     \* log lines kept before the handler model stops
MaxCopies == 3  \* successive copies of one diagnostic
MaxCleanups == 2  \* cleanup functions registered in one run
MaxElements == 3  \* elements a Container holds at most
MaxShapes == 2    \* Circle and Rectangle objects that exist together
MaxLen == 2       \* characters of a string argument
SizeBits == 2     \* bits of std::size_t
MaxClock == 4   \* the last reading of the clock
TicksPerUnit == 2  \* clock ticks per unit of the coarse duration type

Values == 0..MaxValue

(***************************************************************************)
(* enum class ErrorSeverity                                                *)
(***************************************************************************)
kTrace == 0
kDebug == 1
kInfo == 2
kWarning == 3
kError == 4
kFatal == 5

(***************************************************************************)
(* Outcomes of a call: it returns a value or it throws an object.          *)
(***************************************************************************)
Return(v) == [threw |-> FALSE, value |-> v]
Throw(x) == [threw |-> TRUE, thrown |-> x]

(***************************************************************************)
(* The exception classes.  location stands for the std::source_location    *)
(* captured at the construction site.                                      *)
(***************************************************************************)
BaseException(message, severity, location) ==
  [kind |-> "BaseException", what |-> message, severity |-> severity,
   location |-> location]

ValidationException(message, field_name, location) ==
  [kind |-> "ValidationException", what |-> message, severity |-> kError,
   location |-> location, field_name |-> field_name]

ResourceException(message, resource_name, location) ==
  [kind |-> "ResourceException", what |-> message, severity |-> kError,
   location |-> location, resource_name |-> resource_name]

CalculationException(message, input_value, location) ==
  [kind |-> "CalculationException", what |-> message, severity |-> kError,
   location |-> location, input_value |-> input_value]

\* Objects thrown from outside the hierarchy.
RuntimeError(message) == [kind |-> "std::runtime_error", what |-> message]
OpaqueThrow == [kind |-> "int"]

DiagnosticKinds ==
  {"BaseException", "ValidationException", "ResourceException",
   "CalculationException"}

IsDiagnostic(x) == x.kind \in DiagnosticKinds

\* BaseException(const BaseException &): copying a diagnostic of any kind
\* into a BaseException object keeps the base members only.
CopyBaseException(e) ==
  [kind |-> "BaseException", what |-> e.what, severity |-> e.severity,
   location |-> e.location]

\* The diagnostics the callers of the model construct.
Diagnostics ==
  {BaseException("Generic failure", kFatal, "caller:1"),
   BaseException("Test error", kWarning, "caller:2"),
   ValidationException("Test error", "email", "caller:3"),
   ResourceException("File not found", "config.txt", "caller:4"),
   CalculationException("Division by zero", 0, "caller:5")}

Severities == {kTrace, kDebug, kInfo, kWarning, kError, kFatal}

\* The diagnostics of every kind and severity the callers construct.
ConstructedDiagnostics ==
  {BaseException(m, sev, "caller:1") :
     m \in {"Test error", "Original message"}, sev \in Severities}
    \cup {ValidationException("Test error", f, "caller:3") :
            f \in {"nullopt", "email"}}
    \cup {ResourceException("File not found", r, "caller:4") :
            r \in {"nullopt", "config.txt"}}
    \cup {CalculationException("Division by zero", v, "caller:5") :
            v \in {0, -4}}

\* The members of the BaseException subobject, copied one by one.
CopyBaseMembers(e) ==
  [what |-> e.what, severity |-> e.severity, location |-> e.location]

\* A copy that allocates a new string for the message and may fail to.
CopyExceptionAllocating(e) ==
  IF e.what = "Original message"
  THEN Throw([kind |-> "std::bad_alloc", what |-> "std::bad_alloc"])
  ELSE Return(e)

\* The copy constructor and the copy assignment operator of the class of e,
\* all defaulted and noexcept: a copy of each member.
CopyException(e) ==
  LET base == CopyBaseMembers(e)
  IN Return(
       CASE e.kind = "BaseException" ->
              BaseException(base.what, base.severity, base.location)
         [] e.kind = "ValidationException" ->
              [kind |-> "ValidationException", what |-> base.what,
               severity |-> base.severity, location |-> base.location,
               field_name |-> e.field_name]
         [] e.kind = "ResourceException" ->
              [kind |-> "ResourceException", what |-> base.what,
               severity |-> base.severity, location |-> base.location,
               resource_name |-> e.resource_name]
         [] e.kind = "CalculationException" ->
              [kind |-> "CalculationException", what |-> base.what,
               severity |-> base.severity, location |-> base.location,
               input_value |-> e.input_value])

(***************************************************************************)
(* Result<T>: data_ is a std::variant<T, BaseException>; index is the      *)
(* index of its active alternative.                                        *)
(***************************************************************************)
\* explicit Result(T value)
ResultOfValue(value) == [index |-> 0, value |-> value]

\* explicit Result(BaseException exception): the parameter is a
\* BaseException by value, copy-constructed from the argument.
ResultOfException(exception) ==
  [index |-> 1, exception |-> CopyBaseException(exception)]

\* Result(const Result &) = default, operator=(const Result &) = default
CopyResult(r) ==
  IF r.index = 0 THEN [index |-> 0, value |-> r.value]
  ELSE [index |-> 1, exception |-> CopyBaseException(r.exception)]

\* A HasValue that tests for the wrong alternative.
HasValueWrongAlternative(r) == r.index = 1

HasValue(r) == r.index = 0

\* A GetValue that returns a default-constructed T for a Failure.
GetValueSentinel(r) ==
  IF r.index = 0 THEN Return(r.value) ELSE Return(0)

GetValue(r) ==
  IF r.index = 0 THEN Return(r.value)
  ELSE Throw(CopyBaseException(r.exception))

\* A GetException that returns an empty diagnostic for a Success.
GetExceptionSentinel(r) ==
  IF r.index = 1 THEN Return(r.exception)
  ELSE Return(BaseException("", kError, "result.hpp:129"))

GetException(r) ==
  IF r.index = 1 THEN Return(r.exception)
  ELSE Throw(BaseException("No exception in successful result", kError,
                           "result.hpp:129"))

\* The alternative std::visit hands to the visitor, with its static type.
ActiveAlternative(r) ==
  IF r.index = 0 THEN [type |-> "T", value |-> r.value]
  ELSE [type |-> "BaseException", value |-> r.exception]

(***************************************************************************)
(* The callables handed to Map, Then and Visit by the callers.  Invoke     *)
(* yields the outcome of one call.                                         *)
(***************************************************************************)
MapFuncs == {"Identity", "Double", "AddThree", "ThrowingFunc"}
PureMapFuncs == {"Identity", "Double", "AddThree"}
ThenFuncs == {"WrapDouble", "SafeDecrement", "RejectAll"}
UserVisitors == {"IsValue", "ValueOrSeverity", "RethrowError"}

InvokeMapFunc(func, x) ==
  CASE func = "Identity" -> Return(x)
    [] func = "Double" -> Return(x * 2)
    [] func = "AddThree" -> Return(x + 3)
    [] func = "ThrowingFunc" -> Throw(RuntimeError("func failed"))

InvokeThenFunc(func, x) ==
  CASE func = "WrapDouble" -> Return(ResultOfValue(x * 2))
    [] func = "SafeDecrement" ->
         IF x = 0
         THEN Return(ResultOfException(
                CalculationException("Division by zero", x, "helper:103")))
         ELSE Return(ResultOfValue(x - 1))
    [] func = "RejectAll" ->
         Return(ResultOfException(
           ValidationException("Rejected", "age", "helper:72")))

InvokeUserVisitor(visitor, alt) ==
  CASE visitor = "IsValue" -> Return(alt.type = "T")
    [] visitor = "ValueOrSeverity" ->
         IF alt.type = "T" THEN Return(alt.value)
         ELSE Return(0 - alt.value.severity)
    [] visitor = "RethrowError" ->
         IF alt.type = "T" THEN Return(alt.value) ELSE Throw(alt.value)

\* One recorded call of a caller-supplied callable.
Called(func, arg) == [func |-> func, arg |-> arg]

(***************************************************************************)
(* Visit, Map and Then.  Each yields [calls, outcome]: the calls of the    *)
(* caller's callable it made, and what it returned or threw.               *)
(***************************************************************************)
\* A Map lambda that wraps the message of the stored diagnostic in a new one.
MapLambdaRewraps(func, alt) ==
  IF alt.type = "T"
  THEN LET out == InvokeMapFunc(func, alt.value)
       IN [calls |-> <<Called(func, alt.value)>>,
           outcome |-> IF out.threw THEN out
                       ELSE Return(ResultOfValue(out.value))]
  ELSE [calls |-> <<>>,
        outcome |-> Return(ResultOfException(
                      BaseException(alt.value.what, kError, "result.hpp:167")))]

\* A Map lambda that calls func and then wraps the value it was given.
MapLambdaKeepsInput(func, alt) ==
  IF alt.type = "T"
  THEN LET out == InvokeMapFunc(func, alt.value)
       IN [calls |-> <<Called(func, alt.value)>>,
           outcome |-> IF out.threw THEN out
                       ELSE Return(ResultOfValue(alt.value))]
  ELSE [calls |-> <<>>, outcome |-> Return(ResultOfException(alt.value))]

\* A Map lambda that catches what func throws and returns it as a Failure.
MapLambdaSwallows(func, alt) ==
  IF alt.type = "T"
  THEN LET out == InvokeMapFunc(func, alt.value)
       IN [calls |-> <<Called(func, alt.value)>>,
           outcome |-> IF out.threw
                       THEN Return(ResultOfException(
                              BaseException(out.thrown.what, kError,
                                            "result.hpp:165")))
                       ELSE Return(ResultOfValue(out.value))]
  ELSE [calls |-> <<>>, outcome |-> Return(ResultOfException(alt.value))]

\* The lambda of Map, instantiated for the alternative's type.
MapLambda(func, alt) ==
  IF alt.type = "T"
  THEN LET out == InvokeMapFunc(func, alt.value)
       IN [calls |-> <<Called(func, alt.value)>>,
           outcome |-> IF out.threw THEN out
                       ELSE Return(ResultOfValue(out.value))]
  ELSE [calls |-> <<>>, outcome |-> Return(ResultOfException(alt.value))]

\* A Then lambda that calls func on a default-constructed T for a Failure.
ThenLambdaCallsOnFailure(func, alt) ==
  IF alt.type = "T"
  THEN [calls |-> <<Called(func, alt.value)>>,
        outcome |-> InvokeThenFunc(func, alt.value)]
  ELSE [calls |-> <<Called(func, 0)>>, outcome |-> InvokeThenFunc(func, 0)]

\* A Then lambda that wraps the Result of func once more.
ThenLambdaRewraps(func, alt) ==
  IF alt.type = "T"
  THEN LET out == InvokeThenFunc(func, alt.value)
       IN [calls |-> <<Called(func, alt.value)>>,
           outcome |->
             IF out.threw \/ HasValue(out.value) THEN out
             ELSE Return(ResultOfException(
                    BaseException("Then failed", kError, "result.hpp:183")))]
  ELSE [calls |-> <<>>, outcome |-> Return(ResultOfException(alt.value))]

\* The lambda of Then, instantiated for the alternative's type.
ThenLambda(func, alt) ==
  IF alt.type = "T"
  THEN [calls |-> <<Called(func, alt.value)>>,
        outcome |-> InvokeThenFunc(func, alt.value)]
  ELSE [calls |-> <<>>, outcome |-> Return(ResultOfException(alt.value))]

UserLambda(visitor, alt) ==
  [calls |-> <<Called(visitor, alt)>>,
   outcome |-> InvokeUserVisitor(visitor, alt)]

\* A Visit that reads the T alternative with std::get instead of visiting.
VisitGetsValue(r, visitor) ==
  IF r.index = 0
  THEN CASE visitor.lambda = "Map" ->
              MapLambda(visitor.func, ActiveAlternative(r))
         [] visitor.lambda = "Then" ->
              ThenLambda(visitor.func, ActiveAlternative(r))
         [] visitor.lambda = "User" ->
              UserLambda(visitor.func, ActiveAlternative(r))
  ELSE [calls |-> <<>>,
        outcome |-> Throw([kind |-> "std::bad_variant_access",
                           what |-> "bad variant access"])]

\* std::visit(visitor, data_): one call of the visitor, on the active
\* alternative.
Visit(r, visitor) ==
  CASE visitor.lambda = "Map" -> MapLambda(visitor.func, ActiveAlternative(r))
    [] visitor.lambda = "Then" -> ThenLambda(visitor.func, ActiveAlternative(r))
    [] visitor.lambda = "User" -> UserLambda(visitor.func, ActiveAlternative(r))

Map(r, func) == Visit(r, [lambda |-> "Map", func |-> func])

Then(r, func) == Visit(r, [lambda |-> "Then", func |-> func])

(***************************************************************************)
(* ExceptionHandler.                                                       *)
(***************************************************************************)
\* The nullary callables handed to SafeExecute by the callers.
Operations ==
  {"Succeed", "ThrowBase", "ThrowValidation", "ThrowResource",
   "ThrowCalculation", "ThrowRuntimeError", "ThrowInt"}

InvokeOperation(func) ==
  CASE func = "Succeed" -> Return(42)
    [] func = "ThrowBase" ->
         Throw(BaseException("Generic failure", kFatal, "op:1"))
    [] func = "ThrowValidation" ->
         Throw(ValidationException("Test error", "nullopt", "op:2"))
    [] func = "ThrowResource" ->
         Throw(ResourceException("File not found", "config.txt", "op:3"))
    [] func = "ThrowCalculation" ->
         Throw(CalculationException("Division by zero", 0, "op:4"))
    [] func = "ThrowRuntimeError" -> Throw(RuntimeError("Standard error"))
    [] func = "ThrowInt" -> Throw(OpaqueThrow)

SeverityToString(severity) ==
  CASE severity = kInfo -> "INFO"
    [] severity = kWarning -> "WARNING"
    [] severity = kError -> "ERROR"
    [] OTHER -> "UNKNOWN"

\* "{file}:{line} - {function}: {message}"
GetFormattedMessage(e) == <<e.location, e.what>>

LogException(exception) ==
  [shape |-> "Custom Exception",
   severity |-> SeverityToString(exception.severity),
   text |-> GetFormattedMessage(exception)]

LogStandardException(exception) ==
  [shape |-> "Standard Exception", text |-> exception.what]

LogUnknownException ==
  [shape |-> "Unknown Exception",
   text |-> "An unhandled exception occurred"]

\* catch (const BaseException &) matches the class and the classes derived
\* from it; catch (const std::exception &) the other standard exceptions.
CaughtAsBaseException(x) == IsDiagnostic(x)
CaughtAsStdException(x) == IsDiagnostic(x) \/ x.kind = "std::runtime_error"

\* A SafeExecute whose catch (const std::exception &) clause comes first.
SafeExecuteStdExceptionFirst(func) ==
  LET out == InvokeOperation(func)
      calls == <<Called(func, "()")>>
  IN IF ~out.threw
     THEN [calls |-> calls, outcome |-> Return(TRUE), lines |-> <<>>]
     ELSE IF CaughtAsStdException(out.thrown)
     THEN [calls |-> calls, outcome |-> Return(FALSE),
           lines |-> <<LogStandardException(out.thrown)>>]
     ELSE IF CaughtAsBaseException(out.thrown)
     THEN [calls |-> calls, outcome |-> Return(FALSE),
           lines |-> <<LogException(out.thrown)>>]
     ELSE [calls |-> calls, outcome |-> Return(FALSE),
           lines |-> <<LogUnknownException>>]

\* A SafeExecute whose catch (...) clause prints nothing.
SafeExecuteSilentCatchAll(func) ==
  LET out == InvokeOperation(func)
      calls == <<Called(func, "()")>>
  IN IF ~out.threw
     THEN [calls |-> calls, outcome |-> Return(TRUE), lines |-> <<>>]
     ELSE IF CaughtAsBaseException(out.thrown)
     THEN [calls |-> calls, outcome |-> Return(FALSE),
           lines |-> <<LogException(out.thrown)>>]
     ELSE IF CaughtAsStdException(out.thrown)
     THEN [calls |-> calls, outcome |-> Return(FALSE),
           lines |-> <<LogStandardException(out.thrown)>>]
     ELSE [calls |-> calls, outcome |-> Return(FALSE), lines |-> <<>>]

\* A SafeExecuteWithDefault that catches std::exception only.
SafeExecuteWithDefaultStdOnly(func, default_value) ==
  LET out == InvokeOperation(func)
      calls == <<Called(func, "()")>>
  IN IF ~out.threw \/ ~CaughtAsStdException(out.thrown)
     THEN [calls |-> calls, outcome |-> out, lines |-> <<>>]
     ELSE [calls |-> calls, outcome |-> Return(default_value), lines |-> <<>>]

\* Yields [calls, outcome, lines] like SafeExecute.
SafeExecuteWithDefault(func, default_value) ==
  LET out == InvokeOperation(func)
      calls == <<Called(func, "()")>>
  IN IF ~out.threw
     THEN [calls |-> calls, outcome |-> Return(out.value), lines |-> <<>>]
     ELSE [calls |-> calls, outcome |-> Return(default_value), lines |-> <<>>]

\* The default values handed to SafeExecuteWithDefault by the callers.
DefaultValues == {-1, 0}

\* A SafeExecute without the catch (...) clause.
SafeExecuteWithoutCatchAll(func) ==
  LET out == InvokeOperation(func)
      calls == <<Called(func, "()")>>
  IN IF ~out.threw
     THEN [calls |-> calls, outcome |-> Return(TRUE), lines |-> <<>>]
     ELSE IF CaughtAsBaseException(out.thrown)
     THEN [calls |-> calls, outcome |-> Return(FALSE),
           lines |-> <<LogException(out.thrown)>>]
     ELSE IF CaughtAsStdException(out.thrown)
     THEN [calls |-> calls, outcome |-> Return(FALSE),
           lines |-> <<LogStandardException(out.thrown)>>]
     ELSE [calls |-> calls, outcome |-> out, lines |-> <<>>]

\* Yields [calls, outcome, lines]: the calls of func made, what SafeExecute
\* returned or let escape, and the lines it printed.
SafeExecute(func) ==
  LET out == InvokeOperation(func)
      calls == <<Called(func, "()")>>
  IN IF ~out.threw
     THEN [calls |-> calls, outcome |-> Return(TRUE), lines |-> <<>>]
     ELSE IF CaughtAsBaseException(out.thrown)
     THEN [calls |-> calls, outcome |-> Return(FALSE),
           lines |-> <<LogException(out.thrown)>>]
     ELSE IF CaughtAsStdException(out.thrown)
     THEN [calls |-> calls, outcome |-> Return(FALSE),
           lines |-> <<LogStandardException(out.thrown)>>]
     ELSE [calls |-> calls, outcome |-> Return(FALSE),
           lines |-> <<LogUnknownException>>]

(***************************************************************************)
(* The state machine.                                                      *)
(***************************************************************************)
NoCall == [op |-> "none"]

(***************************************************************************)
(* Container<T>, for T = int.  Positions count from 0 as in the code; the  *)
(* element at position i of data_ is data_[i + 1].  The item of Remove is  *)
(* a const T &: it refers either to an object of the caller or to an       *)
(* element of data_ itself.                                                *)
(***************************************************************************)
Elements == {1, 2, 3}

kOutOfBounds == 2

ItemByValue(v) == [alias |-> FALSE, value |-> v]
ItemByElement(i) == [alias |-> TRUE, index |-> i]

\* What the reference item designates while the vector is d.
Deref(item, d) == IF item.alias THEN d[item.index + 1] ELSE item.value

\* std::ranges::find: the first position from i on whose element equals the
\* item, Len(d) if there is none.
RECURSIVE find(_, _, _)
find(d, item, i) ==
  IF i >= Len(d) THEN Len(d)
  ELSE IF d[i + 1] = Deref(item, d) THEN i
  ELSE find(d, item, i + 1)

\* The loop of std::ranges::remove: every element from position i on that
\* does not equal the item is moved to position kept.  Yields the vector
\* and the position where the kept elements end.
RECURSIVE remove_loop(_, _, _, _)
remove_loop(d, item, kept, i) ==
  IF i >= Len(d) THEN [data |-> d, ret |-> kept]
  ELSE IF d[i + 1] # Deref(item, d)
       THEN remove_loop([d EXCEPT ![kept + 1] = d[i + 1]], item,
                        kept + 1, i + 1)
       ELSE remove_loop(d, item, kept, i + 1)

\* std::ranges::remove(data_, item)
ranges_remove(d, item) ==
  LET first == find(d, item, 0)
  IN IF first = Len(d) THEN [data |-> d, ret |-> first]
     ELSE remove_loop(d, item, first, first + 1)

\* Container::Remove: yields the vector it leaves and the count it returns.
Remove(d, item) ==
  LET ret == ranges_remove(d, item)
      count == Len(d) - ret.ret
  IN [data_ |-> SubSeq(ret.data, 1, ret.ret), outcome |-> Return(count)]

\* std::expected<std::reference_wrapper<const T>, ContainerError>
Expected(i, v) == [has_value |-> TRUE, position |-> i, value |-> v]
Unexpected(e) == [has_value |-> FALSE, error |-> e]

\* An At that answers an index past the end with the last element.
AtClamped(d, index) ==
  IF d = <<>> THEN [data_ |-> d, outcome |-> Return(Unexpected(kOutOfBounds))]
  ELSE IF index >= Len(d)
  THEN [data_ |-> d, outcome |-> Return(Expected(Len(d) - 1, d[Len(d)]))]
  ELSE [data_ |-> d, outcome |-> Return(Expected(index, d[index + 1]))]

\* Container::At: yields the vector it leaves and the expected it returns.
At(d, index) ==
  IF index >= Len(d)
  THEN [data_ |-> d, outcome |-> Return(Unexpected(kOutOfBounds))]
  ELSE [data_ |-> d, outcome |-> Return(Expected(index, d[index + 1]))]

(***************************************************************************)
(* Circle and Rectangle.  A double is a finite number or NaN, and every    *)
(* comparison with NaN is false.  Constructors yield the object or the     *)
(* exception they throw.                                                   *)
(***************************************************************************)
DoubleOf(v) == [type |-> "double", nan |-> FALSE, v |-> v]
NaN == [type |-> "double", nan |-> TRUE, v |-> 0]
IntOf(v) == [type |-> "int", nan |-> FALSE, v |-> v]

Doubles == {DoubleOf(v) : v \in -1..2} \cup {NaN}
Arithmetics == Doubles \cup {IntOf(v) : v \in -1..2}

\* x <= 0.0 and x > 0.0
LessEqualZero(x) == ~x.nan /\ x.v <= 0
GreaterThanZero(x) == ~x.nan /\ x.v > 0

\* static_cast<double>(x)
static_cast_double(x) == [x EXCEPT !.type = "double"]

\* explicit Circle(double radius)
Circle(radius) ==
  IF LessEqualZero(radius)
  THEN Throw(ValidationException("Circle radius must be positive", "radius",
                                 "circle.hpp:53"))
  ELSE Return([shape |-> "Circle", radius_ |-> radius])

\* explicit Rectangle(Dimensions dimensions)
Rectangle(dimensions) ==
  IF LessEqualZero(dimensions.width)
  THEN Throw(ValidationException("Rectangle dimensions must be positive",
                                 "width", "rectangle.hpp:70"))
  ELSE IF LessEqualZero(dimensions.height)
  THEN Throw(ValidationException("Rectangle dimensions must be positive",
                                 "height", "rectangle.hpp:73"))
  ELSE Return([shape |-> "Rectangle", dimensions_ |-> dimensions])

\* Rectangle(double width, double height)
RectangleOfWidthHeight(width, height) ==
  Rectangle([width |-> width, height |-> height])

\* explicit Rectangle(double side)
RectangleOfSide(side) == Rectangle([width |-> side, height |-> side])

CreateCircle(radius) == Circle(static_cast_double(radius))

CreateRectangle(width, height) ==
  RectangleOfWidthHeight(static_cast_double(width),
                         static_cast_double(height))

CreateSquare(side) == RectangleOfSide(static_cast_double(side))

(***************************************************************************)
(* Strings are sequences of characters.  find and replace are those of     *)
(* std::basic_string and std::basic_string_view.                           *)
(***************************************************************************)
Chars == {"a", "b"}

Strings == UNION {[1..n -> Chars] : n \in 0..MaxLen}

\* std::string::npos
npos == -1

\* std::string::max_size(): room for every replacement of a non-empty from
max_size == MaxLen * MaxLen

\* std::size_t arithmetic
size_t(n) == n % (2 ^ SizeBits)

\* No call of ReplaceAll or CountOccurrences has been made.
NoScan == [op |-> "none", pc |-> "idle"]

\* s.find(what, pos): the first position at or after pos where what occurs
string_find(s, what, pos) ==
  LET found == {p \in pos..(Len(s) - Len(what)) :
                  SubSeq(s, p + 1, p + Len(what)) = what}
  IN IF found = {} THEN npos
     ELSE CHOOSE p \in found : \A q \in found : p <= q

\* s.replace(pos, count, to), std::length_error above max_size()
string_replace(s, pos, count, to) ==
  LET replaced == SubSeq(s, 1, pos) \o to \o SubSeq(s, pos + count + 1, Len(s))
  IN IF Len(replaced) > max_size THEN Throw([kind |-> "std::length_error"])
     ELSE Return(replaced)

\* What a Result is constructed from: a T or a diagnostic of any kind.
ValueArgument(v) == [kind |-> "T", value |-> v]

ConstructResult(a) ==
  IF a.kind = "T" THEN ResultOfValue(a.value) ELSE ResultOfException(a)

(***************************************************************************)
(* ResourceManager.  A cleanup function is known by its position in        *)
(* registered, which holds what each registered function does when it is   *)
(* invoked.  The operations on the list yield [invoked, outcome,           *)
(* cleanup_functions_, lines]: the functions invoked, in order, how the    *)
(* operation ended, the list it leaves, and the lines it prints.           *)
(***************************************************************************)
ManagerNames == {"m1", "m2"}
NoManager == [state |-> "none"]

CleanupKinds == {"Counting", "ThrowRuntimeError", "ThrowInt"}

\* ResourceManager() = default, with the ghost fields of a fresh object:
\* disable_called and moved tell whether DisableAutomaticCleanup was ever
\* called on the object and whether it was ever the target of a move.
DefaultManager ==
  [state |-> "alive", cleanup_functions_ |-> <<>>,
   enable_automatic_cleanup_ |-> TRUE,
   disable_called |-> FALSE, moved |-> FALSE]

InvokeCleanup(id) ==
  CASE registered[id] = "Counting" -> Return("void")
    [] registered[id] = "ThrowRuntimeError" ->
         Throw(RuntimeError("Cleanup error"))
    [] registered[id] = "ThrowInt" -> Throw(OpaqueThrow)

reverse_view(s) == [i \in 1..Len(s) |-> s[Len(s) + 1 - i]]

ExecutingLine(text, n) == [text |-> text, arg |-> n]

RECURSIVE ExecuteCleanupLoop(_, _)
ExecuteCleanupLoop(view, invoked) ==
  IF view = <<>>
  THEN [invoked |-> invoked, outcome |-> Return("void")]
  ELSE LET out == InvokeCleanup(Head(view))
       IN IF out.threw
          THEN [invoked |-> Append(invoked, Head(view)), outcome |-> out]
          ELSE ExecuteCleanupLoop(Tail(view), Append(invoked, Head(view)))

\* A loop over the list in registration order.
ExecuteCleanupForward(cleanup_functions_) ==
  LET loop == ExecuteCleanupLoop(cleanup_functions_, <<>>)
  IN [invoked |-> loop.invoked,
      outcome |-> loop.outcome,
      cleanup_functions_ |->
        IF loop.outcome.threw THEN cleanup_functions_ ELSE <<>>,
      lines |-> <<ExecutingLine("Executing {} cleanup functions",
                                Len(cleanup_functions_))>>]

ExecuteCleanup(cleanup_functions_) ==
  LET loop == ExecuteCleanupLoop(reverse_view(cleanup_functions_), <<>>)
  IN [invoked |-> loop.invoked,
      outcome |-> loop.outcome,
      cleanup_functions_ |->
        IF loop.outcome.threw THEN cleanup_functions_ ELSE <<>>,
      lines |-> <<ExecutingLine("Executing {} cleanup functions",
                                Len(cleanup_functions_))>>]

WarningLine(x) ==
  IF CaughtAsStdException(x)
  THEN ExecutingLine("Warning: Cleanup function threw exception: {}", x.what)
  ELSE ExecutingLine("Warning: Cleanup function threw unknown exception", 0)

RECURSIVE ExecuteCleanupNoexceptLoop(_, _, _)
ExecuteCleanupNoexceptLoop(view, invoked, lines) ==
  IF view = <<>>
  THEN [invoked |-> invoked, lines |-> lines]
  ELSE LET out == InvokeCleanup(Head(view))
       IN ExecuteCleanupNoexceptLoop(
            Tail(view), Append(invoked, Head(view)),
            IF out.threw THEN Append(lines, WarningLine(out.thrown))
                         ELSE lines)

\* A loop that gives up at the first function that raises.
RECURSIVE StoppingLoop(_, _, _)
StoppingLoop(view, invoked, lines) ==
  IF view = <<>>
  THEN [invoked |-> invoked, lines |-> lines]
  ELSE LET out == InvokeCleanup(Head(view))
       IN IF out.threw
          THEN [invoked |-> Append(invoked, Head(view)),
                lines |-> Append(lines, WarningLine(out.thrown))]
          ELSE StoppingLoop(Tail(view), Append(invoked, Head(view)), lines)

ExecuteCleanupNoexceptStopsAtRaise(cleanup_functions_) ==
  LET loop == StoppingLoop(reverse_view(cleanup_functions_), <<>>, <<>>)
  IN [invoked |-> loop.invoked,
      outcome |-> Return("void"),
      cleanup_functions_ |-> <<>>,
      lines |-> <<ExecutingLine("Executing {} cleanup functions (noexcept)",
                                Len(cleanup_functions_))>> \o loop.lines]

\* The loop without the clear() that follows it.
ExecuteCleanupNoexceptKeepsList(cleanup_functions_) ==
  LET loop == ExecuteCleanupNoexceptLoop(reverse_view(cleanup_functions_),
                                         <<>>, <<>>)
  IN [invoked |-> loop.invoked,
      outcome |-> Return("void"),
      cleanup_functions_ |-> cleanup_functions_,
      lines |-> <<ExecutingLine("Executing {} cleanup functions (noexcept)",
                                Len(cleanup_functions_))>> \o loop.lines]

ExecuteCleanupNoexcept(cleanup_functions_) ==
  LET loop == ExecuteCleanupNoexceptLoop(reverse_view(cleanup_functions_),
                                         <<>>, <<>>)
  IN [invoked |-> loop.invoked,
      outcome |-> Return("void"),
      cleanup_functions_ |-> <<>>,
      lines |-> <<ExecutingLine("Executing {} cleanup functions (noexcept)",
                                Len(cleanup_functions_))>> \o loop.lines]

\* A destructor that runs the cleanups whatever the flag says.
DestructorIgnoresFlag(this) ==
  ExecuteCleanupNoexcept(this.cleanup_functions_)

\* ~ResourceManager() noexcept
Destructor(this) ==
  IF this.enable_automatic_cleanup_
  THEN ExecuteCleanupNoexcept(this.cleanup_functions_)
  ELSE [invoked |-> <<>>, outcome |-> Return("void"),
        cleanup_functions_ |-> this.cleanup_functions_, lines |-> <<>>]

\* The defaulted move constructor and move assignment operator: each member
\* is moved, which copies the flag and leaves the source's vector empty.
MovedTo(this, other) ==
  [this EXCEPT !.cleanup_functions_ = other.cleanup_functions_,
               !.enable_automatic_cleanup_ = other.enable_automatic_cleanup_]

MovedFrom(other) == [other EXCEPT !.cleanup_functions_ = <<>>]
(***************************************************************************)
(* Timer.  A time point is the number of clock ticks since the epoch of    *)
(* the clock, and TimePoint{} is the epoch itself.                         *)
(***************************************************************************)
NoTimer == [state |-> "none"]

DefaultTimePoint == 0

DurationTypes == {"ticks", "units"}

\* std::chrono::duration_cast<DurationType>(d) of a number of ticks: the
\* quotient is truncated toward zero.
duration_cast(DurationType, d) ==
  IF DurationType = "ticks" THEN d
  ELSE IF d >= 0 THEN d \div TicksPerUnit
       ELSE -((-d) \div TicksPerUnit)

\* A measurement that always runs up to the current time.
GetElapsedDurationToNow(this, DurationType) ==
  duration_cast(DurationType, now - this.start_time_)

GetElapsedDuration(this, DurationType) ==
  LET end == IF this.end_time_ = DefaultTimePoint THEN now
                                                  ELSE this.end_time_
  IN duration_cast(DurationType, end - this.start_time_)

\* GetElapsed returns the count() of the duration.
GetElapsed(this, DurationType) == GetElapsedDuration(this, DurationType)

Init ==
  /\ argument \in {ValueArgument(v) : v \in Values} \cup Diagnostics
  /\ result = ConstructResult(argument)
  /\ receiver = NoCall
  /\ start = result
  /\ trace = <<>>
  /\ raised = <<>>
  /\ last = NoCall
  /\ log = <<>>
  /\ safe = NoCall
  /\ original = <<>>
  /\ copies = <<>>
  /\ managers = [m \in ManagerNames |-> NoManager]
  /\ registered = <<>>
  /\ done = {}
  /\ ran = {}
  /\ cleanup = NoCall
  /\ timer = NoTimer
  /\ now = 1
  /\ mutator = NoCall
  /\ reading = NoCall
  /\ data_ = <<>>
  /\ lookup = NoCall
  /\ shapes = <<>>
  /\ built = NoCall
  /\ scan = NoScan

\* A caller builds a success Result and starts a chain from it.
ConstructSuccess ==
  /\ \E v \in Values :
       /\ argument' = ValueArgument(v)
       /\ result' = ConstructResult(argument')
  /\ receiver' = NoCall
  /\ start' = result'
  /\ trace' = <<>>
  /\ raised' = <<>>
  /\ last' = NoCall
  /\ UNCHANGED <<handlerVars, diagnosticVars, managerVars, timerVars, valueVars>>

\* A caller builds a failure Result and starts a chain from it.
ConstructFailure ==
  /\ \E e \in Diagnostics :
       /\ argument' = e
       /\ result' = ConstructResult(argument')
  /\ receiver' = NoCall
  /\ start' = result'
  /\ trace' = <<>>
  /\ raised' = <<>>
  /\ last' = NoCall
  /\ UNCHANGED <<handlerVars, diagnosticVars, managerVars, timerVars, valueVars>>

\* One combinator step on the head of the chain: the Result returned becomes
\* the head, a thrown object leaves the chain.
Step(op, func, call) ==
  /\ trace' = Append(trace, [op |-> op, func |-> func, calls |-> call.calls,
                             outcome |-> call.outcome])
  /\ IF call.outcome.threw
     THEN /\ raised' = <<call.outcome.thrown>>
          /\ result' = result
     ELSE /\ raised' = raised
          /\ result' = call.outcome.value
  /\ last' = NoCall
  /\ UNCHANGED <<start, argument, receiver, handlerVars, diagnosticVars,
                 managerVars, timerVars, valueVars>>

CanStep == raised = <<>> /\ Len(trace) < MaxChain

CallMap ==
  /\ CanStep
  /\ \E func \in MapFuncs : Step("Map", func, Map(result, func))

CallThen ==
  /\ CanStep
  /\ \E func \in ThenFuncs : Step("Then", func, Then(result, func))

CallCopy ==
  /\ CanStep
  /\ Step("Copy", "none", [calls |-> <<>>, outcome |-> Return(CopyResult(result))])

\* The accessors, called on the head of the chain.
Access(op, func, call) ==
  /\ raised = <<>>
  /\ last' = [op |-> op, func |-> func, calls |-> call.calls,
              outcome |-> call.outcome]
  /\ UNCHANGED <<result, start, trace, raised, argument, receiver,
                 handlerVars, diagnosticVars, managerVars, timerVars,
                 valueVars>>

CallHasValue ==
  Access("HasValue", "none",
         [calls |-> <<>>, outcome |-> Return(HasValue(result))])

CallGetValue ==
  Access("GetValue", "none", [calls |-> <<>>, outcome |-> GetValue(result)])

CallGetException ==
  Access("GetException", "none",
         [calls |-> <<>>, outcome |-> GetException(result)])

CallVisit ==
  \E visitor \in UserVisitors :
    Access("Visit", visitor,
           Visit(result, [lambda |-> "User", func |-> visitor]))

ReadOps == {"HasValue", "GetValue", "GetException", "Visit", "Map", "Then"}

\* The callables a caller may pass to op.
OpFuncs(op) ==
  CASE op = "Visit" -> UserVisitors
    [] op = "Map" -> MapFuncs
    [] op = "Then" -> ThenFuncs
    [] OTHER -> {"none"}

\* r.op(func)
Apply(op, func, r) ==
  CASE op = "HasValue" -> [calls |-> <<>>, outcome |-> Return(HasValue(r))]
    [] op = "GetValue" -> [calls |-> <<>>, outcome |-> GetValue(r)]
    [] op = "GetException" -> [calls |-> <<>>, outcome |-> GetException(r)]
    [] op = "Visit" -> Visit(r, [lambda |-> "User", func |-> func])
    [] op = "Map" -> Map(r, func)
    [] op = "Then" -> Then(r, func)

\* A receiver whose payload was moved out by the call.
ReceiverMovedFrom(r) ==
  IF r.index = 0 THEN [index |-> 0, value |-> 0]
  ELSE [index |-> 1,
        exception |-> BaseException("", r.exception.severity,
                                    r.exception.location)]

\* The receiver after a call of one of ReadOps: the six are const member
\* functions, or hand data_ to a visitor that does not write to it, so each
\* alternative of data_ is as it was.
ReceiverAfter(r) ==
  IF r.index = 0 THEN [index |-> 0, value |-> r.value]
  ELSE [index |-> 1, exception |-> r.exception]

\* A caller makes the same call twice on the head of the chain.
CallTwice ==
  /\ raised = <<>>
  /\ \E op \in ReadOps : \E func \in OpFuncs(op) :
       LET first == Apply(op, func, result)
           after == ReceiverAfter(result)
           second == Apply(op, func, after)
       IN receiver' = [op |-> op, func |-> func, before |-> result,
                       after |-> after, first |-> first.outcome,
                       second |-> second.outcome]
  /\ UNCHANGED <<result, start, trace, raised, last, argument,
                 handlerVars, diagnosticVars, managerVars, timerVars,
                 valueVars>>

ReceiverNext ==
  \/ ConstructSuccess
  \/ ConstructFailure
  \/ CallMap
  \/ CallThen
  \/ CallTwice

ReceiverSpec == Init /\ [][ReceiverNext]_vars

ResultNext ==
  \/ ConstructSuccess
  \/ ConstructFailure
  \/ CallMap
  \/ CallThen
  \/ CallCopy
  \/ CallHasValue
  \/ CallGetValue
  \/ CallGetException
  \/ CallVisit

Spec == Init /\ [][ResultNext]_vars

CallSafeExecute ==
  /\ Len(log) < MaxLog
  /\ \E func \in Operations :
       LET call == SafeExecute(func)
       IN /\ safe' = [op |-> "SafeExecute", func |-> func,
                      calls |-> call.calls, outcome |-> call.outcome,
                      lines |-> call.lines]
          /\ log' = log \o call.lines
  /\ UNCHANGED <<resultVars, diagnosticVars, managerVars, timerVars, valueVars>>

CallSafeExecuteWithDefault ==
  /\ \E func \in Operations, default_value \in DefaultValues :
       LET call == SafeExecuteWithDefault(func, default_value)
       IN /\ safe' = [op |-> "SafeExecuteWithDefault", func |-> func,
                      default_value |-> default_value,
                      calls |-> call.calls, outcome |-> call.outcome,
                      lines |-> call.lines]
          /\ log' = log \o call.lines
  /\ UNCHANGED <<resultVars, diagnosticVars, managerVars, timerVars, valueVars>>

HandlerNext ==
  \/ CallSafeExecute
  \/ CallSafeExecuteWithDefault

HandlerSpec == Init /\ [][HandlerNext]_vars

(***************************************************************************)
(* Vocabulary of the properties.                                           *)
(***************************************************************************)
Steps == 1..Len(trace)

\* The Result step i was called on.
Receiver(i) == IF i = 1 THEN start ELSE trace[i - 1].outcome.value

\* The Result at the head of the chain, read off the trace.
ChainHead ==
  IF trace = <<>> \/ trace[Len(trace)].outcome.threw THEN result
  ELSE trace[Len(trace)].outcome.value

\* Every Result the chain has built so far.
ChainResults ==
  {result, start}
    \cup {trace[i].outcome.value : i \in {j \in Steps : ~trace[j].outcome.threw}}

SameBaseMembers(x, e) ==
  /\ x.what = e.what
  /\ x.severity = e.severity
  /\ x.location = e.location

\* Step i is a Then step whose function returned a Failure.
ThenReturnedFailure(i) ==
  /\ trace[i].op = "Then"
  /\ trace[i].calls # <<>>
  /\ LET out == InvokeThenFunc(trace[i].func, trace[i].calls[1].arg)
     IN ~out.threw /\ ~HasValue(out.value)

(***************************************************************************)
(* C1.  A chain of Map and Then steps of any length that starts from a     *)
(* Failure built from diagnostic e invokes none of its functions, and ends *)
(* in a Failure whose Exception() has the message, severity and origin of  *)
(* e.                                                                      *)
(***************************************************************************)
FailureShortCircuits ==
  \A e \in Diagnostics :
    start = ResultOfException(e) =>
      /\ \A i \in Steps : trace[i].calls = <<>>
      /\ raised = <<>>
      /\ ~HasValue(result)
      /\ ~GetException(result).threw
      /\ SameBaseMembers(GetException(result).value, e)

FailureChainWitness ==
  /\ ~HasValue(start)
  /\ Len(trace) = MaxChain
  /\ \E i, j \in Steps : trace[i].op = "Map" /\ trace[j].op = "Then"

(***************************************************************************)
(* C2.  In a chain that starts from a Success, once the function of a Then *)
(* step has returned a Failure holding e, no function of a later step is   *)
(* invoked and the chain ends in a Failure whose message is that of e.     *)
(***************************************************************************)
FirstFailureWins ==
  \A i \in Steps :
    (HasValue(start) /\ ThenReturnedFailure(i)) =>
      LET e == InvokeThenFunc(trace[i].func,
                              trace[i].calls[1].arg).value.exception
      IN /\ \A j \in Steps : j > i => trace[j].calls = <<>>
         /\ raised = <<>>
         /\ ~HasValue(result)
         /\ GetException(result).value.what = e.what

FirstFailureWitness ==
  /\ HasValue(start)
  /\ Len(trace) = 3
  /\ ThenReturnedFailure(1)
  /\ trace[1].func = "SafeDecrement"
  /\ trace[2].op = "Map"
  /\ trace[3].op = "Then" /\ trace[3].func = "RejectAll"

(***************************************************************************)
(* C3.  Every Result, however it was built (success constructor, failure   *)
(* constructor, copy, Map, Then), has exactly one arm: HasValue() is true  *)
(* iff Exception() raises and false iff Value() raises, and never do both  *)
(* raise or both return.                                                   *)
(***************************************************************************)
ExactlyOneArm(r) ==
  /\ HasValue(r) <=> GetException(r).threw
  /\ ~HasValue(r) <=> GetValue(r).threw
  /\ ~(GetValue(r).threw /\ GetException(r).threw)
  /\ GetValue(r).threw \/ GetException(r).threw

Exclusivity == \A r \in ChainResults : ExactlyOneArm(r)

ExclusivityWitness ==
  /\ \E r \in ChainResults : HasValue(r)
  /\ \E r \in ChainResults : ~HasValue(r)
  /\ \E i, j, k \in Steps :
       trace[i].op = "Map" /\ trace[j].op = "Then" /\ trace[k].op = "Copy"

(***************************************************************************)
(* C4.  Value() on a Failure holding e raises a diagnostic with the        *)
(* message, severity and origin of e and returns nothing; on Success(v) it *)
(* returns v; in both cases the Result is left as it was.                  *)
(***************************************************************************)
ValueRaisesOnFailure ==
  last.op = "GetValue" =>
    /\ result = ChainHead
    /\ IF result.index = 1
       THEN /\ last.outcome.threw
            /\ IsDiagnostic(last.outcome.thrown)
            /\ SameBaseMembers(last.outcome.thrown, result.exception)
       ELSE last.outcome = Return(result.value)

ValueOnFailureWitness ==
  /\ last.op = "GetValue"
  /\ last.outcome.threw
  /\ HasValue(start)
  /\ Len(trace) > 0

(***************************************************************************)
(* C5.  Exception() on a Success raises a fresh "No exception in           *)
(* successful result" diagnostic of severity Error and returns nothing; on *)
(* a Failure it returns the stored diagnostic; in both cases the Result is *)
(* left as it was.                                                         *)
(***************************************************************************)
ExceptionRaisesOnSuccess ==
  last.op = "GetException" =>
    /\ result = ChainHead
    /\ IF result.index = 0
       THEN /\ last.outcome.threw
            /\ last.outcome.thrown.kind = "BaseException"
            /\ last.outcome.thrown.what = "No exception in successful result"
            /\ last.outcome.thrown.severity = kError
       ELSE last.outcome = Return(result.exception)

ExceptionOnSuccessWitness ==
  /\ last.op = "GetException"
  /\ last.outcome.threw
  /\ Len(trace) > 0

(***************************************************************************)
(* C6.  Visit invokes the visitor exactly once, on the payload when        *)
(* HasValue() is true and on the stored diagnostic otherwise; it returns   *)
(* what that call returned and raises only what that call raised.          *)
(***************************************************************************)
VisitCallsOneHandler ==
  last.op = "Visit" =>
    /\ Len(last.calls) = 1
    /\ last.calls[1].func = last.func
    /\ IF HasValue(result)
       THEN last.calls[1].arg = [type |-> "T", value |-> result.value]
       ELSE last.calls[1].arg =
              [type |-> "BaseException", value |-> result.exception]
    /\ last.outcome = InvokeUserVisitor(last.func, last.calls[1].arg)

VisitWitness ==
  /\ last.op = "Visit"
  /\ ~HasValue(result)
  /\ last.func = "ValueOrSeverity"
  /\ ~last.outcome.threw
  /\ Len(trace) > 0

(***************************************************************************)
(* C7.  Map(f) on Success(v), f pure, invokes f exactly once, on v, and    *)
(* returns Success(f(v)); Map(Identity) returns an equal Result, and two   *)
(* Map steps f then g return what one Map step with g after f returns.     *)
(***************************************************************************)
PureMapOnSuccess(i) ==
  /\ trace[i].op = "Map"
  /\ trace[i].func \in PureMapFuncs
  /\ HasValue(Receiver(i))

MapAppliesFunction ==
  \A i \in Steps :
    /\ (i > 1 /\ trace[i].op = "Map" /\ trace[i - 1].op = "Map"
           /\ ~HasValue(Receiver(i - 1))) =>
         trace[i].outcome = Map(Receiver(i - 1), trace[i].func).outcome
    /\ PureMapOnSuccess(i) =>
      LET v == Receiver(i).value
          f == trace[i].func
      IN /\ trace[i].calls = <<Called(f, v)>>
         /\ trace[i].outcome = Return(ResultOfValue(InvokeMapFunc(f, v).value))
         /\ f = "Identity" => trace[i].outcome.value = Receiver(i)
         /\ (i > 1 /\ PureMapOnSuccess(i - 1)) =>
              LET w == Receiver(i - 1).value
                  g == trace[i - 1].func
              IN trace[i].outcome.value =
                   ResultOfValue(InvokeMapFunc(f, InvokeMapFunc(g, w).value).value)

MapWitness ==
  /\ Len(trace) >= 2
  /\ PureMapOnSuccess(1) /\ trace[1].func = "Double"
  /\ PureMapOnSuccess(2) /\ trace[2].func = "AddThree"
  /\ start = ResultOfValue(2)
  /\ result = ResultOfValue(7)

(***************************************************************************)
(* C8.  Then(f) on Success(v) invokes f exactly once, on v, and returns    *)
(* the very Result f returned: a Failure stays that Failure, Success(u)    *)
(* stays Success(u), so Then(x => Success(2x)) returns Success(2v).        *)
(***************************************************************************)
ThenReturnsFunctionResult ==
  \A i \in Steps :
    (trace[i].op = "Then" /\ HasValue(Receiver(i))) =>
      LET v == Receiver(i).value
          f == trace[i].func
      IN /\ trace[i].calls = <<Called(f, v)>>
         /\ trace[i].outcome = InvokeThenFunc(f, v)
         /\ f = "WrapDouble" =>
              trace[i].outcome.value =
                ResultOfValue(InvokeMapFunc("Double", v).value)

ThenWitness ==
  /\ Len(trace) >= 2
  /\ trace[1].op = "Then" /\ trace[1].func = "WrapDouble"
  /\ HasValue(start)
  /\ trace[2].op = "Then" /\ trace[2].func = "SafeDecrement"
  /\ ~HasValue(result)

(***************************************************************************)
(* C9.  When the function handed to Map raises on a Success, what it       *)
(* raised leaves Map: Map returns no Result, neither Success nor Failure.  *)
(***************************************************************************)
MapFuncRaised(i) ==
  /\ trace[i].op = "Map"
  /\ HasValue(Receiver(i))
  /\ InvokeMapFunc(trace[i].func, Receiver(i).value).threw

MapPropagatesRaise ==
  \A i \in Steps :
    MapFuncRaised(i) =>
      /\ trace[i].outcome.threw
      /\ trace[i].outcome.thrown =
           InvokeMapFunc(trace[i].func, Receiver(i).value).thrown
      /\ i = Len(trace)
      /\ raised = <<trace[i].outcome.thrown>>

MapRaiseWitness ==
  /\ Len(trace) >= 2
  /\ MapFuncRaised(Len(trace))
  /\ raised # <<>>

(***************************************************************************)
(* C10.  SafeExecute(op) invokes op exactly once; it returns true iff op   *)
(* completed without raising, false whatever op raised, and lets nothing   *)
(* escape to its caller.                                                   *)
(***************************************************************************)
SafeExecuteNeverPropagates ==
  safe.op = "SafeExecute" =>
    /\ Len(safe.calls) = 1
    /\ safe.calls[1].func = safe.func
    /\ ~safe.outcome.threw
    /\ safe.outcome.value = ~InvokeOperation(safe.func).threw

SafeExecuteWitness ==
  /\ safe.op = "SafeExecute"
  /\ safe.func = "ThrowInt"
  /\ safe.outcome = Return(FALSE)
  /\ Len(log) = MaxLog
  /\ log[1].shape = "Custom Exception"

(***************************************************************************)
(* C11.  SafeExecute files what was raised under exactly one of three log  *)
(* shapes: a BaseException or a class derived from it under "Custom        *)
(* Exception", with the name of its severity and its formatted message;    *)
(* another std::exception under "Standard Exception", with what(); any     *)
(* other object under "Unknown Exception".  A derived diagnostic is never  *)
(* filed under "Standard Exception", although it is a std::exception.      *)
(***************************************************************************)
SafeExecuteClassifies ==
  (safe.op = "SafeExecute" /\ InvokeOperation(safe.func).threw) =>
    LET x == InvokeOperation(safe.func).thrown
    IN /\ Len(safe.lines) = 1
       /\ IF x.kind \in DiagnosticKinds
          THEN /\ safe.lines[1].shape = "Custom Exception"
               /\ safe.lines[1].severity = SeverityToString(x.severity)
               /\ safe.lines[1].text = GetFormattedMessage(x)
          ELSE IF x.kind = "std::runtime_error"
          THEN /\ safe.lines[1].shape = "Standard Exception"
               /\ safe.lines[1].text = x.what
          ELSE safe.lines[1].shape = "Unknown Exception"

SafeExecuteClassifiesWitness ==
  /\ safe.op = "SafeExecute"
  /\ safe.func = "ThrowCalculation"
  /\ Len(log) = 2
  /\ log[1].shape = "Standard Exception"
  /\ log[2].shape = "Custom Exception"

(***************************************************************************)
(* C12.  A call of SafeExecute prints exactly one line when the operation  *)
(* raises and no line when it completes.                                   *)
(***************************************************************************)
SafeExecuteLogsOncePerRaise ==
  [][safe'.op = "SafeExecute" =>
       /\ Len(log') = Len(log)
            + (IF InvokeOperation(safe'.func).threw THEN 1 ELSE 0)
       /\ SubSeq(log', 1, Len(log)) = log]_vars

SafeExecuteLogsWitness ==
  /\ safe.op = "SafeExecute"
  /\ safe.func = "Succeed"
  /\ Len(log) = 1
  /\ log[1].shape = "Unknown Exception"

(***************************************************************************)
(* C13.  SafeExecuteWithDefault(op, fallback) invokes op exactly once; it  *)
(* returns what op returned when op completes and fallback whatever op     *)
(* raised, lets nothing escape and prints no line.                         *)
(***************************************************************************)
SafeExecuteWithDefaultOutcome ==
  safe.op = "SafeExecuteWithDefault" =>
    /\ Len(safe.calls) = 1
    /\ safe.calls[1].func = safe.func
    /\ ~safe.outcome.threw
    /\ safe.outcome.value =
         (IF InvokeOperation(safe.func).threw THEN safe.default_value
          ELSE InvokeOperation(safe.func).value)
    /\ safe.lines = <<>>

SafeExecuteWithDefaultFallsBack ==
  /\ []SafeExecuteWithDefaultOutcome
  /\ [][safe'.op = "SafeExecuteWithDefault" => log' = log]_vars

SafeExecuteWithDefaultWitness ==
  /\ safe.op = "SafeExecuteWithDefault"
  /\ safe.func = "ThrowInt"
  /\ safe.outcome = Return(-1)
  /\ Len(log) = 1

(***************************************************************************)
(* Diagnostics and their copies.                                           *)
(***************************************************************************)
ConstructDiagnostic ==
  /\ \E e \in ConstructedDiagnostics : original' = <<e>>
  /\ copies' = <<>>
  /\ UNCHANGED <<resultVars, handlerVars, managerVars, timerVars, valueVars>>

\* The diagnostics that exist: the original and its copies.
Existing == original \o [i \in 1..Len(copies) |-> copies[i].outcome.value]

CanCopy ==
  /\ original # <<>>
  /\ \A i \in 1..Len(copies) : ~copies[i].outcome.threw

\* T copy{source};
CopyConstructDiagnostic ==
  /\ CanCopy
  /\ Len(copies) < MaxCopies
  /\ \E from \in 1..Len(Existing) :
       copies' = Append(copies, [op |-> "copy-construct",
                                 outcome |-> CopyException(Existing[from])])
  /\ UNCHANGED <<original, resultVars, handlerVars, managerVars, timerVars, valueVars>>

\* target = source;
CopyAssignDiagnostic ==
  /\ CanCopy
  /\ \E to \in 1..Len(copies), from \in 1..Len(Existing) :
       copies' = [copies EXCEPT ![to] =
                    [op |-> "copy-assign",
                     outcome |-> CopyException(Existing[from])]]
  /\ UNCHANGED <<original, resultVars, handlerVars, managerVars, timerVars, valueVars>>

DiagnosticNext ==
  \/ ConstructDiagnostic
  \/ CopyConstructDiagnostic
  \/ CopyAssignDiagnostic

DiagnosticSpec == Init /\ [][DiagnosticNext]_vars

(***************************************************************************)
(* C14.  Copy-constructing and copy-assigning a diagnostic of any of the   *)
(* four kinds never raises, however many copies are taken one after the    *)
(* other, and every copy has the message and severity of its source.       *)
(***************************************************************************)
DiagnosticCopiesFaithful ==
  \A i \in 1..Len(copies) :
    /\ ~copies[i].outcome.threw
    /\ copies[i].outcome.value.what = original[1].what
    /\ copies[i].outcome.value.severity = original[1].severity
    /\ copies[i].outcome.value.kind = original[1].kind

DiagnosticCopiesWitness ==
  /\ Len(copies) = MaxCopies
  /\ original[1].kind = "BaseException"
  /\ original[1].what = "Original message"
  /\ original[1].severity = kFatal
  /\ copies[1].op = "copy-assign"
  /\ copies[MaxCopies].op = "copy-construct"

(***************************************************************************)
(* C15.  SeverityToString returns a non-empty name for each of the six     *)
(* enumerators of ErrorSeverity, and different names for different         *)
(* enumerators.                                                            *)
(***************************************************************************)
SeverityNamesDistinct ==
  original # <<>> =>
    /\ SeverityToString(original[1].severity) # ""
    /\ \A other \in Severities :
         other # original[1].severity =>
           SeverityToString(other) # SeverityToString(original[1].severity)

(***************************************************************************)
(* ResourceManager objects, their cleanup functions and their cleanup      *)
(* calls.  cleanup records the cleanup call or the move of the latest      *)
(* step, with the object as it was before the call in this.                *)
(***************************************************************************)
Range(s) == {s[i] : i \in 1..Len(s)}

Alive(m) == managers[m].state = "alive"

\* The functions the calls that have returned had to invoke, after call.
\* The functions invoked so far, after a call that invoked those of invoked.
RanAfter(invoked) == ran \cup Range(invoked)

DoneAfter(m, call) ==
  IF call.outcome.threw THEN done
  ELSE done \cup Range(managers[m].cleanup_functions_)

CleanupCall(op, m, call) ==
  [op |-> op, mgr |-> m, this |-> managers[m],
   invoked |-> call.invoked, outcome |-> call.outcome, lines |-> call.lines]

MoveCall(op, to, from) ==
  [op |-> op, mgr |-> to, this |-> managers[to], other |-> managers[from]]

\* ResourceManager m;
ConstructManager ==
  /\ \E m \in ManagerNames :
       /\ ~Alive(m)
       /\ managers' = [managers EXCEPT ![m] = DefaultManager]
  /\ cleanup' = NoCall
  /\ UNCHANGED <<registered, done, ran>>
  /\ UNCHANGED <<resultVars, handlerVars, diagnosticVars, timerVars, valueVars>>

\* ResourceManager to{std::move(from)};
MoveConstructManager ==
  /\ \E to \in ManagerNames, from \in ManagerNames :
       /\ ~Alive(to)
       /\ Alive(from)
       /\ managers' =
            [managers EXCEPT
               ![to] = [MovedTo(DefaultManager, managers[from]) EXCEPT
                          !.moved = TRUE],
               ![from] = MovedFrom(managers[from])]
       /\ cleanup' = MoveCall("move-construct", to, from)
  /\ UNCHANGED <<registered, done, ran>>
  /\ UNCHANGED <<resultVars, handlerVars, diagnosticVars, timerVars, valueVars>>

\* to = std::move(from);
MoveAssignManager ==
  /\ \E to \in ManagerNames, from \in ManagerNames :
       /\ to # from
       /\ Alive(to)
       /\ Alive(from)
       /\ managers' =
            [managers EXCEPT
               ![to] = [MovedTo(managers[to], managers[from]) EXCEPT
                          !.moved = TRUE],
               ![from] = MovedFrom(managers[from])]
       /\ cleanup' = MoveCall("move-assign", to, from)
  /\ UNCHANGED <<registered, done, ran>>
  /\ UNCHANGED <<resultVars, handlerVars, diagnosticVars, timerVars, valueVars>>

\* m.RegisterCleanup(cleanup_func);
RegisterCleanup ==
  /\ Len(registered) < MaxCleanups
  /\ \E m \in ManagerNames, kind \in CleanupKinds :
       /\ Alive(m)
       /\ registered' = Append(registered, kind)
       /\ managers' =
            [managers EXCEPT
               ![m].cleanup_functions_ = Append(@, Len(registered) + 1)]
  /\ cleanup' = NoCall
  /\ UNCHANGED <<done, ran>>
  /\ UNCHANGED <<resultVars, handlerVars, diagnosticVars, timerVars, valueVars>>

\* m.ExecuteCleanup();
CallExecuteCleanup ==
  /\ \E m \in ManagerNames :
       /\ Alive(m)
       /\ LET call == ExecuteCleanup(managers[m].cleanup_functions_)
          IN /\ cleanup' = CleanupCall("ExecuteCleanup", m, call)
             /\ done' = DoneAfter(m, call)
             /\ ran' = RanAfter(call.invoked)
             /\ managers' =
                  [managers EXCEPT
                     ![m].cleanup_functions_ = call.cleanup_functions_]
  /\ UNCHANGED registered
  /\ UNCHANGED <<resultVars, handlerVars, diagnosticVars, timerVars, valueVars>>

\* m.ExecuteCleanupNoexcept();
CallExecuteCleanupNoexcept ==
  /\ \E m \in ManagerNames :
       /\ Alive(m)
       /\ LET call == ExecuteCleanupNoexcept(managers[m].cleanup_functions_)
          IN /\ cleanup' = CleanupCall("ExecuteCleanupNoexcept", m, call)
             /\ done' = DoneAfter(m, call)
             /\ ran' = RanAfter(call.invoked)
             /\ managers' =
                  [managers EXCEPT
                     ![m].cleanup_functions_ = call.cleanup_functions_]
  /\ UNCHANGED registered
  /\ UNCHANGED <<resultVars, handlerVars, diagnosticVars, timerVars, valueVars>>

\* m.DisableAutomaticCleanup();
DisableAutomaticCleanup ==
  /\ \E m \in ManagerNames :
       /\ Alive(m)
       /\ managers' = [managers EXCEPT
                         ![m].enable_automatic_cleanup_ = FALSE,
                         ![m].disable_called = TRUE]
  /\ cleanup' = NoCall
  /\ UNCHANGED <<registered, done, ran>>
  /\ UNCHANGED <<resultVars, handlerVars, diagnosticVars, timerVars, valueVars>>

\* m goes out of scope.
DestroyManager ==
  /\ \E m \in ManagerNames :
       /\ Alive(m)
       /\ LET call == Destructor(managers[m])
          IN /\ cleanup' = CleanupCall("~ResourceManager", m, call)
             /\ ran' = RanAfter(call.invoked)
             /\ managers' = [managers EXCEPT ![m] = NoManager]
  /\ UNCHANGED <<registered, done>>
  /\ UNCHANGED <<resultVars, handlerVars, diagnosticVars, timerVars, valueVars>>

ManagerNext ==
  \/ ConstructManager
  \/ MoveConstructManager
  \/ MoveAssignManager
  \/ RegisterCleanup
  \/ CallExecuteCleanup
  \/ CallExecuteCleanupNoexcept
  \/ DisableAutomaticCleanup
  \/ DestroyManager

\* The other objects of the program stay as constructed.
ManagerInit == Init /\ result = ResultOfValue(0)

ManagerSpec == ManagerInit /\ [][ManagerNext]_vars

Raises(id) == InvokeCleanup(id).threw

IsPrefix(s, t) == Len(s) <= Len(t) /\ s = SubSeq(t, 1, Len(s))

(***************************************************************************)
(* C16.  As stated: ExecuteCleanup invokes the registered cleanup          *)
(* functions in exactly the reverse of their registration order, each of   *)
(* them once in that call.                                                 *)
(***************************************************************************)
ExecuteCleanupInvokesAllInReverse ==
  cleanup.op = "ExecuteCleanup" =>
    cleanup.invoked = reverse_view(cleanup.this.cleanup_functions_)

(***************************************************************************)
(* C16, amended.  ExecuteCleanup invokes the registered cleanup functions  *)
(* in the reverse of their registration order, each at most once in that   *)
(* call, and stops at the first one that raises, whose failure it          *)
(* propagates; when none raises it invokes each of them exactly once.      *)
(***************************************************************************)
ExecuteCleanupReverseUntilRaise ==
  cleanup.op = "ExecuteCleanup" =>
    LET view == reverse_view(cleanup.this.cleanup_functions_)
        n == Len(cleanup.invoked)
    IN /\ IsPrefix(cleanup.invoked, view)
       /\ \A i \in 1..n : \A j \in 1..n :
            cleanup.invoked[i] = cleanup.invoked[j] => i = j
       /\ \A i \in 1..(n - 1) : ~Raises(cleanup.invoked[i])
       /\ IF cleanup.outcome.threw
          THEN /\ n > 0
               /\ cleanup.outcome = InvokeCleanup(cleanup.invoked[n])
          ELSE cleanup.invoked = view

ExecuteCleanupReverseWitness ==
  /\ cleanup.op = "ExecuteCleanup"
  /\ Len(cleanup.this.cleanup_functions_) = MaxCleanups
  /\ cleanup.outcome.threw
  /\ Len(cleanup.invoked) = 1

(***************************************************************************)
(* C17.  After ExecuteCleanup or ExecuteCleanupNoexcept has returned, the  *)
(* list of the manager is empty, so that an ExecuteCleanup that follows    *)
(* immediately invokes nothing, and no later call invokes a function that  *)
(* was on the list of a call that returned: it invokes only functions      *)
(* registered since.                                                       *)
(***************************************************************************)
CleanupListEmptiedOnReturn ==
  /\ [](cleanup.op \in {"ExecuteCleanup", "ExecuteCleanupNoexcept"}
          /\ ~cleanup.outcome.threw
        => managers[cleanup.mgr].cleanup_functions_ = <<>>)
  /\ [][cleanup.op \in {"ExecuteCleanup", "ExecuteCleanupNoexcept"}
          /\ ~cleanup.outcome.threw
          /\ cleanup'.op = "ExecuteCleanup"
          /\ cleanup'.mgr = cleanup.mgr
        => cleanup'.invoked = <<>>]_vars
  /\ [][cleanup'.op \in {"ExecuteCleanup", "ExecuteCleanupNoexcept"}
        => Range(cleanup'.invoked) \cap done = {}]_vars

CleanupListEmptiedWitness ==
  /\ cleanup.op = "ExecuteCleanup"
  /\ ~cleanup.outcome.threw
  /\ cleanup.invoked # <<>>
  /\ \E id \in done :
       /\ id < cleanup.invoked[1]
       /\ id \notin Range(cleanup.invoked)

(***************************************************************************)
(* C18.  ExecuteCleanupNoexcept never propagates a failure and invokes     *)
(* every registered cleanup function, also when some of them raise.        *)
(***************************************************************************)
NoexceptInvokesEveryFunction ==
  cleanup.op = "ExecuteCleanupNoexcept" =>
    /\ ~cleanup.outcome.threw
    /\ cleanup.invoked = reverse_view(cleanup.this.cleanup_functions_)

NoexceptInvokesEveryWitness ==
  /\ cleanup.op = "ExecuteCleanupNoexcept"
  /\ Len(cleanup.invoked) = MaxCleanups
  /\ Raises(cleanup.invoked[1])
  /\ \E id \in Range(cleanup.invoked) : registered[id] = "ThrowInt"

(***************************************************************************)
(* C19.  As stated: when a ResourceManager is destroyed its                *)
(* still-registered cleanup functions are executed if and only if          *)
(* DisableAutomaticCleanup was never called on it, and destruction never   *)
(* propagates a failure.                                                   *)
(***************************************************************************)
DestructorCleansUnlessDisableCalled ==
  cleanup.op = "~ResourceManager" =>
    /\ ~cleanup.outcome.threw
    /\ cleanup.invoked =
         IF cleanup.this.disable_called
         THEN <<>>
         ELSE reverse_view(cleanup.this.cleanup_functions_)

(***************************************************************************)
(* C19, amended.  When a ResourceManager is destroyed its still-registered *)
(* cleanup functions are executed if and only if its automatic cleanup is  *)
(* enabled at that moment, and destruction never propagates a failure.     *)
(* Automatic cleanup is enabled in a manager that was never the target of  *)
(* a move if and only if DisableAutomaticCleanup was never called on it; a *)
(* move construction or a move assignment gives the target the setting of  *)
(* its source.                                                             *)
(***************************************************************************)
DestructorCleansIffEnabled ==
  /\ [](cleanup.op = "~ResourceManager" =>
          /\ ~cleanup.outcome.threw
          /\ cleanup.invoked =
               IF cleanup.this.enable_automatic_cleanup_
               THEN reverse_view(cleanup.this.cleanup_functions_)
               ELSE <<>>)
  /\ [](\A m \in ManagerNames :
          Alive(m) /\ ~managers[m].moved =>
            managers[m].enable_automatic_cleanup_ = ~managers[m].disable_called)
  /\ [](cleanup.op \in {"move-construct", "move-assign"} =>
          managers[cleanup.mgr].enable_automatic_cleanup_
            = cleanup.other.enable_automatic_cleanup_)

DestructorCleansWitness ==
  /\ cleanup.op = "~ResourceManager"
  /\ cleanup.this.moved
  /\ ~cleanup.this.disable_called
  /\ ~cleanup.this.enable_automatic_cleanup_
  /\ cleanup.this.cleanup_functions_ # <<>>
  /\ cleanup.invoked = <<>>

(***************************************************************************)
(* A Timer under a clock that advances between the calls.  mutator records *)
(* the latest constructor, Start, Stop or Reset call, the start point it   *)
(* left and whether Stop has been called so far; reading records the       *)
(* latest GetElapsed call made since.                                      *)
(***************************************************************************)
Mutator(op, start_time_, stopped) ==
  [op |-> op, at |-> now, start |-> start_time_, stopped |-> stopped]

\* The clock advances by one tick.
Tick ==
  /\ now < MaxClock
  /\ now' = now + 1
  /\ UNCHANGED <<timer, mutator, reading>>
  /\ UNCHANGED <<resultVars, handlerVars, diagnosticVars, managerVars, valueVars>>

\* Timer timer;
ConstructTimer ==
  /\ timer = NoTimer
  /\ timer' = [state |-> "alive", start_time_ |-> now,
               end_time_ |-> DefaultTimePoint]
  /\ mutator' = Mutator("Timer", now, FALSE)
  /\ reading' = NoCall
  /\ UNCHANGED now
  /\ UNCHANGED <<resultVars, handlerVars, diagnosticVars, managerVars, valueVars>>

\* timer.Start();
CallStart ==
  /\ timer # NoTimer
  /\ timer' = [timer EXCEPT !.start_time_ = now]
  /\ mutator' = Mutator("Start", now, mutator.stopped)
  /\ reading' = NoCall
  /\ UNCHANGED now
  /\ UNCHANGED <<resultVars, handlerVars, diagnosticVars, managerVars, valueVars>>

\* timer.Stop();
CallStop ==
  /\ timer # NoTimer
  /\ timer' = [timer EXCEPT !.end_time_ = now]
  /\ mutator' = Mutator("Stop", timer.start_time_, TRUE)
  /\ reading' = NoCall
  /\ UNCHANGED now
  /\ UNCHANGED <<resultVars, handlerVars, diagnosticVars, managerVars, valueVars>>

\* timer.Reset();
CallReset ==
  /\ timer # NoTimer
  /\ timer' = [timer EXCEPT !.start_time_ = now,
                            !.end_time_ = DefaultTimePoint]
  /\ mutator' = Mutator("Reset", now, mutator.stopped)
  /\ reading' = NoCall
  /\ UNCHANGED now
  /\ UNCHANGED <<resultVars, handlerVars, diagnosticVars, managerVars, valueVars>>

\* timer.GetElapsed<DurationType>();
CallGetElapsed ==
  /\ timer # NoTimer
  /\ \E DurationType \in DurationTypes :
       reading' = [op |-> "GetElapsed", type |-> DurationType, at |-> now,
                   value |-> GetElapsed(timer, DurationType)]
  /\ UNCHANGED <<timer, now, mutator>>
  /\ UNCHANGED <<resultVars, handlerVars, diagnosticVars, managerVars, valueVars>>

TimerNext ==
  \/ Tick
  \/ ConstructTimer
  \/ CallStart
  \/ CallStop
  \/ CallReset
  \/ CallGetElapsed

\* The other objects of the program stay as constructed.
TimerInit == Init /\ result = ResultOfValue(0)

TimerSpec == TimerInit /\ [][TimerNext]_vars

(***************************************************************************)
(* C20.  While Stop() is the latest of the constructor, Start, Stop and    *)
(* Reset calls on a Timer, every GetElapsed() returns the duration from    *)
(* the start point to that Stop(), whatever the clock reads; as long as    *)
(* Stop() has never been called, GetElapsed() returns the duration from    *)
(* the start point to the current time.                                    *)
(***************************************************************************)
StoppedElapsedIsFixed ==
  reading.op = "GetElapsed" =>
    /\ mutator.op = "Stop" =>
         reading.value = duration_cast(reading.type, mutator.at - mutator.start)
    /\ ~mutator.stopped =>
         reading.value = duration_cast(reading.type, reading.at - mutator.start)

StoppedElapsedWitness ==
  /\ reading.op = "GetElapsed"
  /\ reading.type = "ticks"
  /\ mutator.op = "Stop"
  /\ mutator.at > mutator.start
  /\ reading.at > mutator.at + 1

(***************************************************************************)
(* C21.  A Stop() on a Timer whose latest constructor, Start, Stop or      *)
(* Reset call was already a Stop() has no effect: GetElapsed() reports     *)
(* after it what it reported before it, in every duration type.            *)
(***************************************************************************)
SecondStopHasNoEffect ==
  [][mutator.op = "Stop" /\ mutator'.op = "Stop" =>
       \A DurationType \in DurationTypes :
         GetElapsed(timer, DurationType)' = GetElapsed(timer, DurationType)]_vars

(***************************************************************************)
(* C28.  Whatever Start, Stop, Reset and GetElapsed calls are made on a    *)
(* Timer, under a clock that never goes backwards, no GetElapsed() reports *)
(* a negative elapsed time.                                                *)
(***************************************************************************)
ElapsedNeverNegative ==
  reading.op = "GetElapsed" => reading.value >= 0

(***************************************************************************)
(* C26.  Whatever calls are made, no ExecuteCleanup, ExecuteCleanupNoexcept *)
(* or destructor call invokes a cleanup function that an earlier call has  *)
(* already invoked: each registered function is invoked at most once.      *)
(***************************************************************************)
InvokedAtMostOnce ==
  [][cleanup'.op \in {"ExecuteCleanup", "ExecuteCleanupNoexcept",
                       "~ResourceManager"}
       => Range(cleanup'.invoked) \cap ran = {}]_vars

(***************************************************************************)
(* The managers of a program that never calls DisableAutomaticCleanup.     *)
(***************************************************************************)
NeverDisabledNext ==
  \/ ConstructManager
  \/ MoveConstructManager
  \/ MoveAssignManager
  \/ RegisterCleanup
  \/ CallExecuteCleanup
  \/ CallExecuteCleanupNoexcept
  \/ DestroyManager

NeverDisabledSpec == ManagerInit /\ [][NeverDisabledNext]_vars

\* Whether some manager that exists holds the function id.
Held(id) ==
  \E m \in ManagerNames :
    Alive(m) /\ id \in Range(managers[m].cleanup_functions_)

(***************************************************************************)
(* C27.  When DisableAutomaticCleanup is never called, every registered    *)
(* cleanup function is either still held by a manager that exists or has   *)
(* been invoked: none is lost when managers are move-constructed,          *)
(* move-assigned or destroyed.                                             *)
(***************************************************************************)
RegisteredFunctionsNotLost ==
  \A id \in 1..Len(registered) : Held(id) \/ id \in ran

Refinements ==
  {"ValidationException", "ResourceException", "CalculationException"}

\* Whether x is a diagnostic of the kind of e with the refinement field of e.
SameRefinement(x, e) ==
  /\ x.kind = e.kind
  /\ CASE e.kind = "ValidationException" -> x.field_name = e.field_name
       [] e.kind = "ResourceException" -> x.resource_name = e.resource_name
       [] e.kind = "CalculationException" -> x.input_value = e.input_value

(***************************************************************************)
(* C25.  When the chain started from a Failure constructed from a          *)
(* validation, resource or calculation diagnostic, the diagnostic that     *)
(* GetException returns, that Visit hands to the visitor and that GetValue *)
(* raises, after any number of Map, Then and copy steps, has the kind and  *)
(* the refinement field of that diagnostic.                                *)
(***************************************************************************)
RefinementReadBack ==
  argument.kind \in Refinements /\ last.op # "none" =>
    /\ last.op = "GetException" =>
         /\ ~last.outcome.threw
         /\ SameRefinement(last.outcome.value, argument)
    /\ last.op = "GetValue" =>
         /\ last.outcome.threw
         /\ SameRefinement(last.outcome.thrown, argument)
    /\ last.op = "Visit" =>
         SameRefinement(last.calls[1].arg.value, argument)

Add ==
  /\ Len(data_) < MaxElements
  /\ \E item \in Elements : data_' = Append(data_, item)
  /\ lookup' = [op |-> "Add"]
  /\ UNCHANGED <<resultVars, handlerVars, diagnosticVars, managerVars,
                 timerVars, shapeVars, stringVars>>

\* container.Emplace(args...);
Emplace ==
  /\ Len(data_) < MaxElements
  /\ \E args \in Elements : data_' = Append(data_, args)
  /\ lookup' = [op |-> "Emplace"]
  /\ UNCHANGED <<resultVars, handlerVars, diagnosticVars, managerVars,
                 timerVars, shapeVars, stringVars>>

\* The items a caller can pass to Remove.
Items ==
  {ItemByValue(v) : v \in Elements}
    \cup {ItemByElement(i) : i \in 0..(Len(data_) - 1)}

\* container.Remove(item);
CallRemove ==
  /\ \E item \in Items :
       LET call == Remove(data_, item)
       IN /\ data_' = call.data_
          /\ lookup' = [op |-> "Remove", item |-> item,
                        equal_to |-> Deref(item, data_), before |-> data_,
                        outcome |-> call.outcome]
  /\ UNCHANGED <<resultVars, handlerVars, diagnosticVars, managerVars,
                 timerVars, shapeVars, stringVars>>

\* container.At(index);
CallAt ==
  /\ \E index \in 0..(MaxElements + 1) :
       LET call == At(data_, index)
       IN /\ data_' = call.data_
          /\ lookup' = [op |-> "At", index |-> index, before |-> data_,
                        outcome |-> call.outcome]
  /\ UNCHANGED <<resultVars, handlerVars, diagnosticVars, managerVars,
                 timerVars, shapeVars, stringVars>>

ContainerNext ==
  \/ Add
  \/ Emplace
  \/ CallRemove
  \/ CallAt

\* The other objects of the program stay as constructed.
ContainerInit == Init /\ result = ResultOfValue(0)

ContainerSpec == ContainerInit /\ [][ContainerNext]_vars

(***************************************************************************)
(* C22.  At(index) returns the element at position index when              *)
(* index < GetSize() and the error kOutOfBounds when index >= GetSize(),   *)
(* on an empty container for every index, and leaves the container as it   *)
(* was, whatever Add, Emplace and Remove calls came before.                *)
(***************************************************************************)
AtChecksBounds ==
  lookup.op = "At" =>
    /\ data_ = lookup.before
    /\ ~lookup.outcome.threw
    /\ IF lookup.index < Len(lookup.before)
       THEN /\ lookup.outcome.value.has_value
            /\ lookup.outcome.value.position = lookup.index
            /\ lookup.outcome.value.value = lookup.before[lookup.index + 1]
       ELSE /\ ~lookup.outcome.value.has_value
            /\ lookup.outcome.value.error = kOutOfBounds

AtChecksBoundsWitness ==
  /\ lookup.op = "At"
  /\ Len(data_) = 2
  /\ lookup.index = 2
  /\ ~lookup.outcome.value.has_value

\* The elements of d that differ from v, in their order.
Without(d, v) == LET Keep(x) == x # v IN SelectSeq(d, Keep)

(***************************************************************************)
(* C23.  Remove(item) deletes every element equal to item and no other,    *)
(* keeps the remaining elements in their order, returns the number of      *)
(* elements deleted, which is the decrease of GetSize(), and returns 0 and *)
(* changes nothing when no element equals item.                            *)
(***************************************************************************)
RemoveDeletesAllEqual ==
  lookup.op = "Remove" =>
    /\ data_ = Without(lookup.before, lookup.equal_to)
    /\ lookup.outcome = Return(Len(lookup.before) - Len(data_))

(***************************************************************************)
(* The shapes a program constructs.  built records the latest constructor  *)
(* or factory call; the object of a call that returned is added to shapes. *)
(***************************************************************************)
Construct(op, args, outcome) ==
  /\ built' = [op |-> op, args |-> args, outcome |-> outcome]
  /\ shapes' = IF outcome.threw THEN shapes
                                ELSE Append(shapes, outcome.value)
  /\ UNCHANGED <<resultVars, handlerVars, diagnosticVars, managerVars,
                 timerVars, containerVars, stringVars>>

\* Circle circle{radius};
ConstructCircle ==
  /\ Len(shapes) < MaxShapes
  /\ \E radius \in Doubles :
       Construct("Circle", <<radius>>, Circle(radius))

\* Rectangle rect{Rectangle::Dimensions{width, height}};
ConstructRectangle ==
  /\ Len(shapes) < MaxShapes
  /\ \E width \in Doubles, height \in Doubles :
       Construct("Rectangle(Dimensions)", <<width, height>>,
                 Rectangle([width |-> width, height |-> height]))

\* Rectangle rect{width, height};
ConstructRectangleOfWidthHeight ==
  /\ Len(shapes) < MaxShapes
  /\ \E width \in Doubles, height \in Doubles :
       Construct("Rectangle", <<width, height>>,
                 RectangleOfWidthHeight(width, height))

\* Rectangle square{side};
ConstructRectangleOfSide ==
  /\ Len(shapes) < MaxShapes
  /\ \E side \in Doubles :
       Construct("Rectangle(side)", <<side, side>>, RectangleOfSide(side))

\* CreateCircle(radius);
CallCreateCircle ==
  /\ Len(shapes) < MaxShapes
  /\ \E radius \in Arithmetics :
       Construct("CreateCircle", <<static_cast_double(radius)>>,
                 CreateCircle(radius))

\* CreateRectangle(width, height);
CallCreateRectangle ==
  /\ Len(shapes) < MaxShapes
  /\ \E width \in Arithmetics, height \in Arithmetics :
       Construct("CreateRectangle",
                 <<static_cast_double(width), static_cast_double(height)>>,
                 CreateRectangle(width, height))

\* CreateSquare(side);
CallCreateSquare ==
  /\ Len(shapes) < MaxShapes
  /\ \E side \in Arithmetics :
       Construct("CreateSquare",
                 <<static_cast_double(side), static_cast_double(side)>>,
                 CreateSquare(side))

\* The oldest shape goes out of scope.
DestroyShape ==
  /\ shapes # <<>>
  /\ shapes' = Tail(shapes)
  /\ built' = NoCall
  /\ UNCHANGED <<resultVars, handlerVars, diagnosticVars, managerVars,
                 timerVars, containerVars, stringVars>>

ShapeNext ==
  \/ ConstructCircle
  \/ ConstructRectangle
  \/ ConstructRectangleOfWidthHeight
  \/ ConstructRectangleOfSide
  \/ CallCreateCircle
  \/ CallCreateRectangle
  \/ CallCreateSquare
  \/ DestroyShape

\* The other objects of the program stay as constructed.
ShapeInit == Init /\ result = ResultOfValue(0)

ShapeSpec == ShapeInit /\ [][ShapeNext]_vars

\* Whether out is a ValidationException thrown for the dimension field.
Rejects(out, field) ==
  /\ out.threw
  /\ out.thrown.kind = "ValidationException"
  /\ out.thrown.field_name = field

(***************************************************************************)
(* C24.  Every constructor and factory call with a radius, width or height *)
(* that is zero or negative raises a ValidationException whose field name  *)
(* is that dimension, the width being checked before the height, and every *)
(* Circle that exists has radius > 0 and every Rectangle has width > 0 and *)
(* height > 0.                                                             *)
(***************************************************************************)
OnlyPositiveDimensions ==
  /\ built.op \in {"Circle", "CreateCircle"} /\ LessEqualZero(built.args[1])
       => Rejects(built.outcome, "radius")
  /\ built.op \notin {"none", "Circle", "CreateCircle"} =>
       /\ LessEqualZero(built.args[1]) => Rejects(built.outcome, "width")
       /\ GreaterThanZero(built.args[1]) /\ LessEqualZero(built.args[2])
            => Rejects(built.outcome, "height")
  /\ \A i \in 1..Len(shapes) :
       IF shapes[i].shape = "Circle"
       THEN GreaterThanZero(shapes[i].radius_)
       ELSE /\ GreaterThanZero(shapes[i].dimensions_.width)
            /\ GreaterThanZero(shapes[i].dimensions_.height)

(***************************************************************************)
(* StringProcessor::ReplaceAll and CountOccurrences, one step per          *)
(* evaluation of the loop condition and per execution of the loop body.    *)
(* scan holds the locals of the running call and its position.             *)
(***************************************************************************)
Finished == scan.pc \in {"returned", "threw"}

Running == scan.pc \in {"while", "body"}

\* std::string result(input); std::size_t pos = 0;
CallReplaceAll ==
  /\ scan.pc = "idle"
  /\ \E input \in Strings, from \in Strings, to \in Strings :
       scan' = [op |-> "ReplaceAll", pc |-> "while", result |-> input,
                from |-> from, to |-> to, pos |-> 0]
  /\ UNCHANGED <<resultVars, handlerVars, diagnosticVars, managerVars,
                 timerVars, containerVars, shapeVars>>

\* while ((pos = result.find(from, pos)) != std::string::npos) ... return result;
ReplaceAllWhile ==
  /\ scan.op = "ReplaceAll" /\ scan.pc = "while"
  /\ LET found == string_find(scan.result, scan.from, scan.pos)
     IN scan' = [scan EXCEPT !.pos = found,
                             !.pc = IF found = npos THEN "returned"
                                                    ELSE "body"]
  /\ UNCHANGED <<resultVars, handlerVars, diagnosticVars, managerVars,
                 timerVars, containerVars, shapeVars>>

\* result.replace(pos, from.length(), to); pos += to.length();
ReplaceAllBody ==
  /\ scan.op = "ReplaceAll" /\ scan.pc = "body"
  /\ LET replaced == string_replace(scan.result, scan.pos, Len(scan.from),
                                    scan.to)
     IN scan' = IF replaced.threw
                THEN [scan EXCEPT !.pc = "threw"]
                ELSE [scan EXCEPT !.result = replaced.value,
                                  !.pos = scan.pos + Len(scan.to),
                                  !.pc = "while"]
  /\ UNCHANGED <<resultVars, handlerVars, diagnosticVars, managerVars,
                 timerVars, containerVars, shapeVars>>

\* std::size_t count = 0; std::size_t pos = 0;
CallCountOccurrences ==
  /\ scan.pc = "idle"
  /\ \E input \in Strings, target \in Strings :
       scan' = [op |-> "CountOccurrences", pc |-> "while", input |-> input,
                target |-> target, count |-> 0, pos |-> 0]
  /\ UNCHANGED <<resultVars, handlerVars, diagnosticVars, managerVars,
                 timerVars, containerVars, shapeVars>>

\* while ((pos = input.find(target, pos)) != std::string_view::npos) ... return count;
CountOccurrencesWhile ==
  /\ scan.op = "CountOccurrences" /\ scan.pc = "while"
  /\ LET found == string_find(scan.input, scan.target, scan.pos)
     IN scan' = [scan EXCEPT !.pos = found,
                             !.pc = IF found = npos THEN "returned"
                                                    ELSE "body"]
  /\ UNCHANGED <<resultVars, handlerVars, diagnosticVars, managerVars,
                 timerVars, containerVars, shapeVars>>

\* ++count; pos += target.length();
CountOccurrencesBody ==
  /\ scan.op = "CountOccurrences" /\ scan.pc = "body"
  /\ scan' = [scan EXCEPT !.count = size_t(scan.count + 1),
                          !.pos = scan.pos + Len(scan.target),
                          !.pc = "while"]
  /\ UNCHANGED <<resultVars, handlerVars, diagnosticVars, managerVars,
                 timerVars, containerVars, shapeVars>>

\* The caller takes the outcome of the call.
TakeOutcome ==
  /\ Finished
  /\ scan' = NoScan
  /\ UNCHANGED <<resultVars, handlerVars, diagnosticVars, managerVars,
                 timerVars, containerVars, shapeVars>>

\* One step of the call that is running.
StringStep ==
  \/ ReplaceAllWhile
  \/ ReplaceAllBody
  \/ CountOccurrencesWhile
  \/ CountOccurrencesBody

StringNext ==
  \/ CallReplaceAll
  \/ CallCountOccurrences
  \/ StringStep
  \/ TakeOutcome

\* The other objects of the program stay as constructed.
StringInit == Init /\ result = ResultOfValue(0)

\* A call that has started keeps executing until it returns or throws.
StringSpec == StringInit /\ [][StringNext]_vars /\ WF_vars(StringStep)

(***************************************************************************)
(* C30.  Every call of ReplaceAll and of CountOccurrences terminates,      *)
(* whatever its arguments: a running call leads to one that has returned   *)
(* or thrown.                                                              *)
(***************************************************************************)
ScanTerminates == Running ~> Finished

====
